---- MODULE Spec2Model ----
(***************************************************************************)
(* Model of the WeChat article collector                                   *)
(* (src/wechat_articles/collector/article_collector.py).                   *)
(*                                                                         *)
(* and of the account monitor (src/wechat_articles/api/account_monitor.py). *)
(*                                                                         *)
(* Specifications, all over the same variables:                            *)
(*   WalkSpec      a direct call of _get_articles_by_mp_api (the listing    *)
(*                 walker) against an arbitrary upstream;                  *)
(*   WalkLiveSpec  the same under fair scheduling of the walker;           *)
(*   Spec          a call of collect_and_export_articles, which runs the   *)
(*                 walker, then extracts and renders each stub;            *)
(*   ListingSpec   such a call against an upstream serving irregular       *)
(*                 groups;                                                 *)
(*   RunsSpec      repeated calls on one collector instance;               *)
(*   FetchSpec     _download_images;                                       *)
(*   ServiceSpec   the monitor loop and its endpoints;                     *)
(*   CheckSpec     the monitor's per-account checks;                       *)
(*   NameSpec      _generate_filename.                                     *)
(*                                                                         *)
(* Optional values (Python None) are sequences: <<>> is None, <<v>> is v.  *)
(* Time is counted in ticks; a day has DayTicks ticks.                     *)
(***************************************************************************)
EXTENDS Integers, Sequences, FiniteSets, TLC

VARIABLES
    entry,            \* which method the caller invoked: "walker" or "collect"
    pc,               \* position of the running call
    token,            \* self.token is configured
    fakeid,           \* self.fakeid is configured
    start_date,       \* start_date argument
    end_date,         \* end_date argument
    export_formats,   \* export_formats argument (None or a list of tags)
    start_timestamp,  \* walker local
    end_timestamp,    \* walker local
    all_articles,     \* walker local: stubs accumulated so far
    begin,            \* walker local: page offset of the next request
    feed,             \* every response the upstream has served, in order
    special_left,     \* upstream: irregular items it may still serve
    articles,         \* value returned by the walker
    idx,              \* _process_articles_with_formats: loop index
    collected_articles, \* _process_articles_with_formats local
    stats,            \* self.stats
    files,            \* files present in the account directory
    detail_log,       \* the extractions attempted, in order, with their outcome
    render_log,       \* the saver calls made: article, format, outcome
    fail_left,        \* environment: failures it may still inject
    result,           \* value returned by collect_and_export_articles
    runs,             \* calls of collect_and_export_articles on this instance
    workers,          \* _download_images: the state of each invocation
    disk,             \* the files of <base_output_dir>/images
    touched,          \* per path, the invocations that created or changed it
    monitored_accounts, \* AccountMonitor.monitored_accounts
    running,          \* AccountMonitor.running
    loops,            \* the monitor loop threads started so far
    requests,         \* the request threads and what each is doing
    name_args,        \* _generate_filename: the article it is called with
    filename          \* _generate_filename: the name it returned

collectVars == <<entry, pc, token, fakeid, start_date, end_date, export_formats,
                 start_timestamp, end_timestamp, all_articles, begin, feed,
                 special_left, articles, idx, collected_articles, stats, files,
                 detail_log, render_log, fail_left, result, runs>>

fetchVars == <<workers, disk, touched>>

serviceVars == <<monitored_accounts, running, loops, requests>>

nameVars == <<name_args, filename>>

nonFetchVars == <<collectVars, serviceVars, nameVars>>
nonServiceVars == <<collectVars, fetchVars, nameVars>>
nonNameVars == <<collectVars, fetchVars, serviceVars>>

vars == <<collectVars, fetchVars, serviceVars, nameVars>>

walkerVars == <<start_timestamp, end_timestamp, all_articles, begin, feed,
                special_left>>
processVars == <<idx, collected_articles, stats, files, detail_log,
                 render_log, fail_left>>
inputVars == <<entry, token, fakeid, start_date, end_date>>

----------------------------------------------------------------------------
(* Bounds *)

MaxLoops == 2       \* monitor loop threads started in one behaviour
MaxRequests == 1    \* request threads serving checks and collections
MaxErrors == 2      \* failed checks counted per monitored account

MaxSpecial == 1     \* irregular feed items the upstream may serve in one walk
MaxPages == 2       \* responses the upstream serves in one walk
MaxGroups == 6      \* groups the upstream feed holds
MaxFail == 2        \* extraction or render failures injected in one run
MaxRuns == 2        \* collection runs on one collector instance
DayTicks == 2       \* ticks per day

(* Program constants *)

page_size == 5
max_length == 200
RateLimitRet == 200013

None == <<>>
Some(x) == <<x>>

Range(seq) == {seq[i] : i \in 1..Len(seq)}

----------------------------------------------------------------------------
(* Dates and timestamps *)

DayStart(d) == d * DayTicks
DayEnd(d) == DayStart(d + 1) - 1

RangeDay == 1
Times == (DayStart(RangeDay) - 1) .. (DayEnd(RangeDay) + 1)

\* item.get('create_time', 0): what the walker reads from a group that
\* carries no timestamp.
MissingTime == 0
DefaultTime == DayStart(RangeDay)

\* A date argument: None, a well-formed date in one of the two accepted
\* forms, or a string strptime rejects.
DateInputs ==
    {None}
    \cup {Some([form |-> f, day |-> RangeDay]) : f \in {"YYYYMMDD", "YYYY-MM-DD"}}
    \cup {Some([form |-> "malformed", day |-> 0])}

WellFormed(d) == d # None /\ d[1].form # "malformed"

\* The <<start_date, end_date>> arguments of a walk: each side absent,
\* well-formed or malformed, the two accepted forms both on either side.
DatePairs ==
    {pr \in DateInputs \X DateInputs :
        \/ ~WellFormed(pr[1]) /\ ~WellFormed(pr[2])
        \/ WellFormed(pr[1]) /\ pr[1][1].form = "YYYYMMDD" /\ ~WellFormed(pr[2])
        \/ WellFormed(pr[2]) /\ pr[2][1].form = "YYYY-MM-DD" /\ ~WellFormed(pr[1])
        \/ WellFormed(pr[1]) /\ WellFormed(pr[2]) /\ pr[1][1].form # pr[2][1].form}

\* Mutant: a string strptime rejects is read as the day RangeDay.
ParseDate_MalformedParsed(d) ==
    IF d = None THEN None
    ELSE IF d[1].form \in {"YYYYMMDD", "YYYY-MM-DD"} THEN Some(d[1].day)
    ELSE Some(RangeDay)

\* datetime.strptime under the two formats: the day, or None on ValueError.
ParseDate(d) ==
    IF d = None THEN None
    ELSE IF d[1].form \in {"YYYYMMDD", "YYYY-MM-DD"} THEN Some(d[1].day)
    ELSE None

StartTimestamp(d) ==
    IF ParseDate(d) = None THEN None ELSE Some(DayStart(ParseDate(d)[1]))

\* Mutant: end_date widened to the next midnight instead of 23:59:59.
EndTimestamp_NextMidnight(d) ==
    IF ParseDate(d) = None THEN None ELSE Some(DayStart(ParseDate(d)[1] + 1))

EndTimestamp(d) ==
    IF ParseDate(d) = None THEN None ELSE Some(DayEnd(ParseDate(d)[1]))

\* Python truthiness of an optional number: None and 0 are false.
Truthy(ts) == ts # None /\ ts[1] # 0

BeforeStart(create_time, ts) == Truthy(ts) /\ create_time < ts[1]
AfterEnd(create_time, ts) == Truthy(ts) /\ create_time > ts[1]

Today == DayEnd(RangeDay) \div DayTicks + 1

\* _convert_timestamp: the formatted local time, or today's date when the
\* timestamp is missing.
ConvertTimestamp(t) ==
    IF t # 0 THEN [day |-> t \div DayTicks, tick |-> t % DayTicks, clock |-> TRUE]
    ELSE [day |-> Today, tick |-> 0, clock |-> FALSE]

----------------------------------------------------------------------------
(* The upstream feed-listing API *)

\* Position <<p, k, j>>: page p, group k of the page, j = 0 for the primary
\* article and j >= 1 for the j-th nested sub-item.  It serves as the value
\* of both the title and the link of that article.
SubShapes == {"none", "one", "bad_then_one"}

SubItems(p, k, shape) ==
    IF shape = "none" THEN <<>>
    ELSE IF shape = "one"
    THEN << [title |-> Some(<<p, k, 1>>), link |-> Some(<<p, k, 1>>)] >>
    ELSE << [title |-> Some(<<p, k, 1>>), link |-> None],
            [title |-> Some(<<p, k, 2>>), link |-> Some(<<p, k, 2>>)] >>

\* The title of the primary article of group k of page p: its own, or,
\* when the account repeats a headline, that of the group before it.
ItemTitle(p, k, repeated) ==
    IF repeated /\ k = 2 THEN <<p, 1, 0>> ELSE <<p, k, 0>>

\* Whether the second group of a page may repeat the first one's title.
RepeatChoices(p, n) == IF p = 1 /\ n >= 2 THEN BOOLEAN ELSE {FALSE}

MkItem(p, k, kind, repeated) ==
    [create_time |-> kind.create_time,
     title |-> IF kind.primary THEN Some(ItemTitle(p, k, repeated)) ELSE None,
     link |-> Some(<<p, k, 0>>),
     multi_app_msg_item_list |-> SubItems(p, k, kind.subs)]

DefaultKind == [create_time |-> DefaultTime, primary |-> TRUE, subs |-> "none"]

\* The irregular items: another timestamp or none, nested sub-items, a
\* primary article without title, a sub-item without link.
SpecialKinds ==
    {kd \in [create_time : Times \cup {MissingTime}, primary : BOOLEAN, subs : SubShapes] :
        /\ kd # DefaultKind
        /\ (kd.primary \/ kd.subs = "one")
        /\ (kd.create_time = MissingTime => kd.subs = "none")
        /\ (kd.create_time # DefaultTime => kd.primary /\ kd.subs # "bad_then_one")
        /\ (kd.subs = "one" /\ kd.primary =>
               kd.create_time \in {DefaultTime, DayStart(RangeDay) - 1, DayEnd(RangeDay) + 1})}

\* A page of n groups whose groups in S are irregular as f says.
Page(p, n, S, f, repeated) ==
    [k \in 1..n |-> IF k \in S THEN MkItem(p, k, f[k], repeated)
                    ELSE MkItem(p, k, DefaultKind, repeated)]

JsonResponse(has_base, ret, err_msg, has_list, items) ==
    [transport_error |-> FALSE, has_base_resp |-> has_base, ret |-> ret,
     err_msg |-> err_msg, has_app_msg_list |-> has_list, app_msg_list |-> items]

OkResponse(items) == JsonResponse(TRUE, 0, "ok", TRUE, items)

\* Responses that carry no item list.
BareResponses ==
    { JsonResponse(TRUE, RateLimitRet, "freq control", FALSE, <<>>),
      JsonResponse(TRUE, -1, "freg control", FALSE, <<>>),
      JsonResponse(TRUE, -1, "invalid session", FALSE, <<>>),
      JsonResponse(TRUE, 0, "ok", FALSE, <<>>),
      JsonResponse(FALSE, 0, "", FALSE, <<>>),
      [JsonResponse(FALSE, 0, "", FALSE, <<>>) EXCEPT !.transport_error = TRUE] }

Min(a, b) == IF a < b THEN a ELSE b
Max(a, b) == IF a > b THEN a ELSE b

\* The feed is finite: it holds at most MaxGroups groups, `offset` of which
\* lie before the requested page, and the last response the upstream
\* serves is never a full page.
MaxPageLen(p, offset) ==
    Min(IF p < MaxPages THEN page_size ELSE page_size - 1,
        IF offset < MaxGroups THEN MaxGroups - offset ELSE 0)

----------------------------------------------------------------------------
(* _get_articles_by_mp_api: the listing walker *)

Stub(title, link, create_time) ==
    [title |-> title[1], url |-> link[1],
     publish_time |-> ConvertTimestamp(create_time)]

\* The stubs of the sub-items that have a title and a link, in order; each
\* carries the group's create_time.
RECURSIVE SubStubs(_, _, _)
SubStubs(subs, j, create_time) ==
    IF j > Len(subs) THEN <<>>
    ELSE (IF subs[j].title # None /\ subs[j].link # None
          THEN << Stub(subs[j].title, subs[j].link, create_time) >>
          ELSE <<>>)
         \o SubStubs(subs, j + 1, create_time)

\* Mutant: the sub-items are emitted before the primary article.
Flatten_SubsFirst(item) ==
    SubStubs(item.multi_app_msg_item_list, 1, item.create_time)
    \o (IF item.title # None /\ item.link # None
        THEN << Stub(item.title, item.link, item.create_time) >>
        ELSE <<>>)

\* The primary article, when it has title and link, then the sub-items.
Flatten(item) ==
    (IF item.title # None /\ item.link # None
     THEN << Stub(item.title, item.link, item.create_time) >>
     ELSE <<>>)
    \o SubStubs(item.multi_app_msg_item_list, 1, item.create_time)

\* Mutant: a group later than end_date ends the scan like one older than
\* start_date.
RECURSIVE ScanPage_EndStops(_, _, _, _, _)
ScanPage_EndStops(items, k, acc, start_ts, end_ts) ==
    IF k > Len(items) THEN [all_articles |-> acc, stop_due_to_time |-> FALSE]
    ELSE IF BeforeStart(items[k].create_time, start_ts)
            \/ AfterEnd(items[k].create_time, end_ts)
    THEN [all_articles |-> acc, stop_due_to_time |-> TRUE]
    ELSE ScanPage_EndStops(items, k + 1, acc \o Flatten(items[k]), start_ts, end_ts)

\* The for loop over one page: acc extended by the page's stubs, and
\* stop_due_to_time.
RECURSIVE ScanPage(_, _, _, _, _)
ScanPage(items, k, acc, start_ts, end_ts) ==
    IF k > Len(items) THEN [all_articles |-> acc, stop_due_to_time |-> FALSE]
    ELSE IF BeforeStart(items[k].create_time, start_ts)
    THEN [all_articles |-> acc, stop_due_to_time |-> TRUE]
    ELSE IF AfterEnd(items[k].create_time, end_ts)
    THEN ScanPage(items, k + 1, acc, start_ts, end_ts)
    ELSE ScanPage(items, k + 1, acc \o Flatten(items[k]), start_ts, end_ts)

\* How the walker classifies a response before it looks at the items.
ResponseStatus(resp) ==
    IF resp.transport_error THEN "exception"
    ELSE IF resp.has_base_resp /\ resp.ret # 0
    THEN (IF resp.ret = RateLimitRet \/ resp.err_msg = "freg control"
          THEN "rate_limit" ELSE "api_error")
    ELSE IF resp.has_base_resp \/ resp.has_app_msg_list THEN "ok"
    ELSE "format_error"

\* Mutant: the rate-limit status is raised instead of ending the loop.
StatusExit_RaiseRateLimit(status) ==
    IF status \in {"exception", "rate_limit"} THEN "except" ELSE "break"

\* Mutant: an error status other than the rate limit is raised.
StatusExit_RaiseApiError(status) ==
    IF status \in {"exception", "api_error"} THEN "except" ELSE "break"

\* The walk's reaction to a status that ends it without scanning.
StatusExit(status) ==
    IF status = "exception" THEN "except" ELSE "break"

\* Mutant: stop_due_to_time ends the for loop but not the while loop.
WalkPage_NoOuterBreak(resp, acc, offset, start_ts, end_ts) ==
    LET status == ResponseStatus(resp)
        scan == ScanPage(resp.app_msg_list, 1, acc, start_ts, end_ts)
    IN  IF status # "ok"
        THEN [all_articles |-> acc, begin |-> offset, next |-> StatusExit(status)]
        ELSE IF Len(resp.app_msg_list) = 0
        THEN [all_articles |-> acc, begin |-> offset, next |-> "break"]
        ELSE IF Len(resp.app_msg_list) < page_size
        THEN [all_articles |-> scan.all_articles, begin |-> offset, next |-> "break"]
        ELSE [all_articles |-> scan.all_articles, begin |-> offset + page_size,
              next |-> "continue"]

\* Mutant: a short page does not end the walk.
WalkPage_IgnoreShortPage(resp, acc, offset, start_ts, end_ts) ==
    LET status == ResponseStatus(resp)
        scan == ScanPage(resp.app_msg_list, 1, acc, start_ts, end_ts)
    IN  IF status # "ok"
        THEN [all_articles |-> acc, begin |-> offset, next |-> StatusExit(status)]
        ELSE IF Len(resp.app_msg_list) = 0
        THEN [all_articles |-> acc, begin |-> offset, next |-> "break"]
        ELSE IF scan.stop_due_to_time
        THEN [all_articles |-> scan.all_articles, begin |-> offset, next |-> "break"]
        ELSE [all_articles |-> scan.all_articles, begin |-> offset + page_size,
              next |-> "continue"]

\* One iteration of the while loop on response resp.
WalkPage(resp, acc, offset, start_ts, end_ts) ==
    LET status == ResponseStatus(resp)
        scan == ScanPage(resp.app_msg_list, 1, acc, start_ts, end_ts)
    IN  IF status # "ok"
        THEN [all_articles |-> acc, begin |-> offset, next |-> StatusExit(status)]
        ELSE IF Len(resp.app_msg_list) = 0
        THEN [all_articles |-> acc, begin |-> offset, next |-> "break"]
        ELSE IF scan.stop_due_to_time
        THEN [all_articles |-> scan.all_articles, begin |-> offset, next |-> "break"]
        ELSE IF Len(resp.app_msg_list) < page_size
        THEN [all_articles |-> scan.all_articles, begin |-> offset, next |-> "break"]
        ELSE [all_articles |-> scan.all_articles, begin |-> offset + page_size,
              next |-> "continue"]

\* Where a finished walker call returns to.
AfterWalker == IF entry = "walker" THEN "done" ELSE "collect_listed"

\* Lines 2108-2147: configuration checks, date parsing, loop start.
WalkerEntry ==
    /\ pc = "walker_entry"
    /\ IF ~token \/ ~fakeid
       THEN /\ articles' = <<>>
            /\ pc' = AfterWalker
            /\ UNCHANGED <<start_timestamp, end_timestamp>>
       ELSE /\ start_timestamp' = StartTimestamp(start_date)
            /\ end_timestamp' = EndTimestamp(end_date)
            /\ pc' = "walker_loop"
            /\ UNCHANGED articles
    /\ all_articles' = <<>>
    /\ begin' = 0
    /\ UNCHANGED <<inputVars, runs, fetchVars, serviceVars, nameVars, export_formats, feed, special_left, processVars, result>>

\* One iteration of the while loop on response resp, which used `used`
\* irregular items; when the loop ends, the return (lines 2309-2316) or the
\* except clause around the whole walk (lines 2318-2321).
Respond(resp, used) ==
    LET out == WalkPage(resp, all_articles, begin, start_timestamp, end_timestamp)
    IN  /\ feed' = Append(feed, resp)
        /\ special_left' = special_left - used
        /\ all_articles' = out.all_articles
        /\ begin' = out.begin
        /\ pc' = IF out.next = "continue" THEN "walker_loop" ELSE AfterWalker
        /\ articles' = IF out.next = "continue" THEN articles
                       ELSE IF out.next = "break" THEN out.all_articles
                       ELSE <<>>
        /\ UNCHANGED <<inputVars, runs, fetchVars, serviceVars, nameVars, export_formats, start_timestamp, end_timestamp,
                       processVars, result>>

\* A request at offset begin, answered by a page of groups.
WalkerPage ==
    /\ pc = "walker_loop"
    /\ Len(feed) < MaxPages
    /\ \E n \in 0..MaxPageLen(Len(feed) + 1, begin) :
       \E S \in SUBSET (1..n) :
         /\ Cardinality(S) <= special_left
         /\ \E f \in [S -> SpecialKinds] :
            \E repeated \in RepeatChoices(Len(feed) + 1, n) :
              Respond(OkResponse(Page(Len(feed) + 1, n, S, f, repeated)), Cardinality(S))

\* A request answered without item list (error status, malformed body,
\* transport failure).
WalkerBareResponse ==
    /\ pc = "walker_loop"
    /\ Len(feed) < MaxPages
    /\ \E resp \in BareResponses : Respond(resp, 0)

InitStats == [total_collected |-> 0, success_count |-> 0, error_count |-> 0]

\* The account directory before the run: files an earlier run left there.
PriorFiles ==
    {[base |-> [account |-> "account", title |-> <<0, 0, 0>>, date |-> 0], ext |-> e] :
        e \in {"json", "pdf", "pdf.txt"}}

InitCommon ==
    /\ token \in BOOLEAN
    /\ fakeid \in BOOLEAN
    /\ start_timestamp = None
    /\ end_timestamp = None
    /\ all_articles = <<>>
    /\ begin = 0
    /\ feed = <<>>
    /\ articles = <<>>
    /\ idx = 0
    /\ collected_articles = <<>>
    /\ stats = InitStats
    /\ files = PriorFiles
    /\ detail_log = <<>>
    /\ render_log = {}
    /\ result = None
    /\ runs = 1

\* No invocation of _download_images is under observation.
InitFetchIdle ==
    /\ workers = <<>>
    /\ disk = <<>>
    /\ touched = <<>>

\* No monitor and no request thread is under observation.
InitServiceIdle ==
    /\ monitored_accounts = <<>>
    /\ running = FALSE
    /\ loops = <<>>
    /\ requests = <<>>

\* No call of _generate_filename is under observation.
InitNameIdle ==
    /\ name_args = None
    /\ filename = None

\* A direct call of _get_articles_by_mp_api(account_name, start_date, end_date).
InitWalk ==
    /\ InitCommon
    /\ InitFetchIdle
    /\ InitServiceIdle
    /\ InitNameIdle
    /\ entry = "walker"
    /\ pc = "walker_entry"
    /\ \E pr \in DatePairs : start_date = pr[1] /\ end_date = pr[2]
    /\ export_formats = None
    /\ special_left = MaxSpecial
    /\ fail_left = 0

NextWalk == WalkerEntry \/ WalkerPage \/ WalkerBareResponse

WalkSpec == InitWalk /\ [][NextWalk]_vars

\* The request of one iteration returns (session.get has timeout=15) and the
\* walker handles its response. This is WF_vars(WalkerPage \/
\* WalkerBareResponse) written out, with the step recognised by its effect:
\* these two actions, and no other, append to feed.
ResponseArrives ==
    \/ []<>(~ENABLED <<WalkerPage \/ WalkerBareResponse>>_vars)
    \/ []<><<feed' # feed>>_vars

\* The walker runs in its caller's thread and takes its next step whenever
\* it has one.
WalkLiveSpec == WalkSpec /\ WF_vars(WalkerEntry) /\ ResponseArrives

----------------------------------------------------------------------------
(* Rendering: _save_article_in_formats and the savers *)

DefaultFormats == <<"pdf", "docx">>

\* What the caller may pass as export_formats.
FormatArgs ==
    {None, Some(<<"json">>), Some(<<"pdf", "json">>), Some(<<"html", "json">>),
     Some(<<"json", "html">>)}

\* The savers that let an error escape (_save_as_json, _save_as_html,
\* _save_as_txt, _save_as_markdown) and those that catch it and write a
\* text fallback (_save_as_pdf, _save_as_docx).
RaisingFormats == {"json", "html", "txt", "md"}
DocFormats == {"pdf", "docx", "word"}

\* Extension of the file a saver writes.
ExtOf(fmt) == IF fmt = "word" THEN "docx" ELSE fmt

\* What one saver call may do: "ok" writes the file; "fail" is an error
\* while rendering; "fail_all", for the document formats, is an error
\* while rendering followed by an error while writing the text fallback.
RenderOutcomes(fmt) ==
    IF fmt \in DocFormats THEN {"ok", "fail", "fail_all"}
    ELSE IF fmt \in RaisingFormats THEN {"ok", "fail"}
    ELSE {"ok"}

\* _generate_filename: account, sanitized title and the date of publish_time.
GenerateFilename(article) ==
    [account |-> article.account_name, title |-> article.title,
     date |-> article.publish_time.day]

\* _create_text_fallback_for_pdf / _create_text_fallback_for_docx: the
\* fallback file, unless writing it fails too (the error is logged).
TextFallback(base, fmt, outcome) ==
    IF outcome = "fail" THEN {[base |-> base, ext |-> ExtOf(fmt) \o ".txt"]} ELSE {}

\* Mutant: a failing document saver lets its error escape, without fallback.
Saver_DocRaises(base, fmt, outcome) ==
    IF fmt \notin RaisingFormats \cup DocFormats
    THEN [written |-> {}, raised |-> FALSE]
    ELSE IF outcome = "ok"
    THEN [written |-> {[base |-> base, ext |-> ExtOf(fmt)]}, raised |-> FALSE]
    ELSE [written |-> {}, raised |-> TRUE]

\* One saver call: the files it leaves and whether an error escapes it.
Saver(base, fmt, outcome) ==
    IF fmt \notin RaisingFormats \cup DocFormats
    THEN [written |-> {}, raised |-> FALSE]
    ELSE IF outcome = "ok"
    THEN [written |-> {[base |-> base, ext |-> ExtOf(fmt)]}, raised |-> FALSE]
    ELSE IF fmt \in DocFormats
    THEN [written |-> TextFallback(base, fmt, outcome), raised |-> FALSE]
    ELSE [written |-> {}, raised |-> TRUE]

\* The for loop of _save_article_in_formats from position j on, inside its
\* try: the files written, the formats whose saver was called, and the
\* value returned.
RECURSIVE SaveLoop(_, _, _, _)
SaveLoop(base, formats, outcomes, j) ==
    IF j > Len(formats) THEN [written |-> {}, called |-> {}, ok |-> TRUE]
    ELSE LET one == Saver(base, formats[j], outcomes[j])
             rest == SaveLoop(base, formats, outcomes, j + 1)
         IN  IF one.raised
             THEN [written |-> one.written, called |-> {j}, ok |-> FALSE]
             ELSE [written |-> one.written \cup rest.written,
                   called |-> {j} \cup rest.called, ok |-> rest.ok]

SaveArticleInFormats(article, formats, outcomes) ==
    SaveLoop(GenerateFilename(article), formats, outcomes, 1)

\* Number of injected failures in a choice of saver outcomes.
Failures(outcomes) == Cardinality({j \in DOMAIN outcomes : outcomes[j] # "ok"})

\* The saver outcomes the environment may choose for one article: at most
\* `budget` failures, and none chosen for a saver that is never called.
OutcomeChoices(formats, budget) ==
    {o \in [1..Len(formats) -> {"ok", "fail", "fail_all"}] :
        /\ \A j \in 1..Len(formats) : o[j] \in RenderOutcomes(formats[j])
        /\ Failures(o) <= budget
        /\ \A j \in 1..Len(formats) :
              (o[j] # "ok" /\ formats[j] \in RaisingFormats)
                  => \A later \in (j + 1)..Len(formats) : o[later] = "ok"}

----------------------------------------------------------------------------
(* The orchestrator: collect_and_export_articles *)

AccountName == "account"

\* _get_article_detail on a page that yields content and a publish time.
ArticleDetail(stub, page_has_time) ==
    [url |-> stub.url,
     publish_time |-> IF page_has_time
                      THEN [day |-> stub.publish_time.day, tick |-> 0, clock |-> FALSE]
                      ELSE [day |-> Today, tick |-> 0, clock |-> FALSE]]

\* {**article, **article_detail} plus account_name.
FullArticle(stub, detail) ==
    [title |-> stub.title, url |-> detail.url, publish_time |-> detail.publish_time,
     account_name |-> AccountName]

\* Lines 71-80 and 115-134: default formats, then the listing when a token
\* is configured.
CollectEntry ==
    /\ pc = "collect_entry"
    /\ export_formats' = IF export_formats = None THEN Some(DefaultFormats) ELSE export_formats
    /\ IF token
       THEN pc' = "walker_entry" /\ UNCHANGED collected_articles
       ELSE pc' = "collect_return" /\ collected_articles' = <<>>
    /\ UNCHANGED <<inputVars, runs, fetchVars, serviceVars, nameVars, walkerVars, articles, idx, stats, files, detail_log,
                   render_log, fail_left, result>>

\* Mutant: the except clause of _collect_articles_with_formats re-raises.
CollectExcept_Reraise == [raised |-> TRUE, value |-> <<>>]

\* Lines 136-138: the except clause around the body of
\* _collect_articles_with_formats logs the error and returns [].
CollectExcept == [raised |-> FALSE, value |-> <<>>]

\* Lines 126-134 and 233-235: what _collect_articles_with_formats does with
\* the list; account_dir.mkdir, outside the per-article try, may raise.
CollectListed ==
    /\ pc = "collect_listed"
    /\ \/ /\ articles # <<>>
          /\ pc' = "process"
          /\ idx' = 1
          /\ collected_articles' = <<>>
          /\ UNCHANGED fail_left
       \/ /\ articles # <<>>
          /\ fail_left > 0
          /\ fail_left' = fail_left - 1
          /\ pc' = IF CollectExcept.raised THEN "raised" ELSE "collect_return"
          /\ collected_articles' = CollectExcept.value
          /\ UNCHANGED idx
       \/ /\ articles = <<>>
          /\ pc' = "collect_return"
          /\ collected_articles' = <<>>
          /\ UNCHANGED <<idx, fail_left>>
    /\ UNCHANGED <<inputVars, runs, fetchVars, serviceVars, nameVars, export_formats, walkerVars, articles, stats, files,
                   detail_log, render_log, result>>

\* Mutant: an article whose rendering failed is counted as an error.
Classify_RenderCounts(detail_ok, saved_ok) ==
    IF detail_ok /\ saved_ok THEN "success" ELSE "error"

\* Mutant: a failed article ends the loop (break instead of continue).
NextIndex_AbortOnFailure(i, n, failed) == IF failed THEN n + 1 ELSE i + 1

\* Lines 242-254: which counter an article goes to, given whether
\* _get_article_detail returned a detail and what _save_article_in_formats
\* returned.
Classify(detail_ok, saved_ok) == IF detail_ok THEN "success" ELSE "error"

\* Lines 237 and 258-261: the index the loop goes on with after article i
\* of n (`continue` after a failure).
NextIndex(i, n, failed) == i + 1

Count(st, class) ==
    IF class = "success" THEN [st EXCEPT !.success_count = @ + 1]
    ELSE [st EXCEPT !.error_count = @ + 1]

\* Lines 237-261, extraction succeeded: merge, save in all formats, count.
ProcessSuccess(page_has_time, outcomes) ==
    LET stub == articles[idx]
        full_article == FullArticle(stub, ArticleDetail(stub, page_has_time))
        saved == SaveArticleInFormats(full_article, export_formats[1], outcomes)
        class == Classify(TRUE, saved.ok)
    IN  /\ detail_log' = Append(detail_log,
              [url |-> stub.url, ok |-> TRUE, page_has_time |-> page_has_time])
        /\ files' = files \cup saved.written
        /\ render_log' = render_log \cup
              {[url |-> stub.url, base |-> GenerateFilename(full_article), pos |-> j,
                fmt |-> export_formats[1][j], outcome |-> outcomes[j]] : j \in saved.called}
        /\ collected_articles' = IF class = "success"
                                 THEN Append(collected_articles, full_article)
                                 ELSE collected_articles
        /\ stats' = Count(stats, class)
        /\ fail_left' = fail_left - Failures(outcomes) - (IF page_has_time THEN 0 ELSE 1)
        /\ idx' = NextIndex(idx, Len(articles), class = "error")

\* Lines 252-254 and 258-261: no detail, or an exception in the loop body.
ProcessFailure ==
    /\ detail_log' = Append(detail_log,
          [url |-> articles[idx].url, ok |-> FALSE, page_has_time |-> FALSE])
    /\ stats' = Count(stats, Classify(FALSE, FALSE))
    /\ fail_left' = fail_left - 1
    /\ idx' = NextIndex(idx, Len(articles), TRUE)
    /\ UNCHANGED <<files, render_log, collected_articles>>

\* One iteration of the loop of _process_articles_with_formats.
ProcessArticle ==
    /\ pc = "process"
    /\ idx <= Len(articles)
    /\ \/ \E page_has_time \in BOOLEAN :
            /\ page_has_time \/ fail_left > 0
            /\ \E outcomes \in OutcomeChoices(export_formats[1],
                                   fail_left - (IF page_has_time THEN 0 ELSE 1)) :
                 ProcessSuccess(page_has_time, outcomes)
       \/ /\ fail_left > 0
          /\ \E detail \in {"null", "exception"} : ProcessFailure
    /\ pc' = "process"
    /\ UNCHANGED <<inputVars, runs, fetchVars, serviceVars, nameVars, export_formats, walkerVars, articles, result>>

\* Lines 263-266: after the loop.
ProcessDone ==
    /\ pc = "process"
    /\ idx > Len(articles)
    /\ stats' = [stats EXCEPT !.total_collected = Len(collected_articles)]
    /\ pc' = "collect_return"
    /\ UNCHANGED <<inputVars, runs, fetchVars, serviceVars, nameVars, export_formats, walkerVars, articles, idx,
                   collected_articles, files, detail_log, render_log, fail_left, result>>

\* account_dir.glob('*.<ext>'): the files whose name ends in .<ext>; the
\* text fallbacks <name>.pdf.txt and <name>.docx.txt end in .txt.
Glob(dir, ext) ==
    {f \in dir : f.ext = ext \/ (ext = "txt" /\ f.ext \in {"pdf.txt", "docx.txt"})}

StatFormats == {"json", "html", "txt", "md", "pdf", "docx", "word"}

\* Mutant: export_stats tallies only the files this run wrote.
ExportStats_ThisRunOnly(formats, dir) ==
    [key \in {ExtOf(formats[j]) : j \in {i \in 1..Len(formats) : formats[i] \in StatFormats}}
        |-> Cardinality(Glob(dir \ PriorFiles, key))]

\* Lines 93-105: one export_stats entry per recognised requested format.
ExportStats(formats, dir) ==
    [key \in {ExtOf(formats[j]) : j \in {i \in 1..Len(formats) : formats[i] \in StatFormats}}
        |-> Cardinality(Glob(dir, key))]

\* Mutant: the empty result reports success.
EmptyResult_Success(formats) ==
    [success |-> TRUE, message |-> "no article collected", articles_count |-> 0,
     export_stats |-> [key \in Range(formats) |-> 0]]

\* Lines 82-88: the result when nothing was collected.
EmptyResult(formats) ==
    [success |-> FALSE, message |-> "no article collected", articles_count |-> 0,
     export_stats |-> [key \in Range(formats) |-> 0]]

\* Lines 107-113: the result when articles were collected.
FullResult(collected, formats, dir) ==
    [success |-> TRUE, message |-> "collection and export finished",
     articles_count |-> Len(collected),
     export_stats |-> ExportStats(formats, dir),
     export_directory |-> AccountName]

\* Lines 82-113: the value collect_and_export_articles returns.
CollectReturn ==
    /\ pc = "collect_return"
    /\ result' = IF collected_articles = <<>>
                 THEN Some(EmptyResult(export_formats[1]))
                 ELSE Some(FullResult(collected_articles, export_formats[1], files))
    /\ pc' = "done"
    /\ UNCHANGED <<inputVars, runs, fetchVars, serviceVars, nameVars, export_formats, walkerVars, articles, processVars>>

\* A call of collect_and_export_articles(account_name, export_formats) on a
\* fresh collector.
Init ==
    /\ InitCommon
    /\ InitFetchIdle
    /\ InitServiceIdle
    /\ InitNameIdle
    /\ entry = "collect"
    /\ pc = "collect_entry"
    /\ start_date = None
    /\ end_date = None
    /\ export_formats \in FormatArgs
    /\ special_left = 0
    /\ fail_left = MaxFail

Next ==
    \/ CollectEntry
    \/ WalkerEntry
    \/ WalkerPage
    \/ WalkerBareResponse
    \/ CollectListed
    \/ ProcessArticle
    \/ ProcessDone
    \/ CollectReturn

Spec == Init /\ [][Next]_vars

\* The rate get_collection_stats reports, success_count /
\* max(total_collected, 1) * 100, as a fraction.
SuccessRate(st) ==
    [num |-> st.success_count * 100, den |-> Max(st.total_collected, 1)]

\* get_collection_stats: self.stats and the derived success_rate.
GetCollectionStats(st) ==
    [total_collected |-> st.total_collected, success_count |-> st.success_count,
     error_count |-> st.error_count, success_rate |-> SuccessRate(st)]

\* Another call of collect_and_export_articles on the same instance, with
\* the same arguments, after the previous one returned: the locals of the
\* methods are fresh, self.stats and the account directory are as the
\* previous run left them.
CollectAgain ==
    /\ pc = "done"
    /\ entry = "collect"
    /\ runs < MaxRuns
    /\ runs' = runs + 1
    /\ pc' = "collect_entry"
    /\ start_timestamp' = None
    /\ end_timestamp' = None
    /\ all_articles' = <<>>
    /\ begin' = 0
    /\ feed' = <<>>
    /\ articles' = <<>>
    /\ idx' = 0
    /\ collected_articles' = <<>>
    /\ detail_log' = <<>>
    /\ render_log' = {}
    /\ result' = None
    /\ UNCHANGED <<inputVars, fetchVars, serviceVars, nameVars, export_formats,
                   special_left, stats, files, fail_left>>

\* Calls of collect_and_export_articles(account_name, ['json']), one after
\* the other, on one collector.
InitRuns ==
    /\ InitCommon
    /\ InitFetchIdle
    /\ InitServiceIdle
    /\ InitNameIdle
    /\ entry = "collect"
    /\ pc = "collect_entry"
    /\ start_date = None
    /\ end_date = None
    /\ export_formats = Some(<<"json">>)
    /\ special_left = 0
    /\ fail_left = MaxFail

NextRuns == Next \/ CollectAgain

RunsSpec == InitRuns /\ [][NextRuns]_vars

\* The date arguments of such a call: none, or a well-formed window.
ListingDatePairs ==
    {pr \in DatePairs :
        \/ pr[1] = None /\ pr[2] = None
        \/ WellFormed(pr[1]) /\ WellFormed(pr[2])}

\* A call of collect_and_export_articles(account_name, ['json'], start_date,
\* end_date) against an upstream that serves irregular groups.
InitListing ==
    /\ InitCommon
    /\ InitFetchIdle
    /\ InitServiceIdle
    /\ InitNameIdle
    /\ entry = "collect"
    /\ pc = "collect_entry"
    /\ \E pr \in ListingDatePairs : start_date = pr[1] /\ end_date = pr[2]
    /\ export_formats = Some(<<"json">>)
    /\ special_left = MaxSpecial
    /\ fail_left = 0

ListingSpec == InitListing /\ [][Next]_vars

----------------------------------------------------------------------------
(* _download_images: the asset fetcher, as run by two invocations of the   *)
(* orchestrator for two different accounts                                 *)

Invocations == {"A", "B"}

\* The account directory of an invocation (line 234) and the image
\* directory (line 2508), which does not depend on the account.
AccountDir(w) == "account_" \o w
ImagesDir == "images"

\* An img attribute value: an absolute URL (scheme http or https), a
\* protocol-relative reference //rest (scheme "") or a relative path.
Ref(scheme, rest) == [scheme |-> scheme, rest |-> rest]

ImgTag(src, data_src) == [src |-> src, data_src |-> data_src]

RemoteUrls == {Ref("https", "r1"), Ref("https", "r2")}

\* The img tags of the article fragments an invocation may be given.
Fragments ==
    { <<>>,
      << ImgTag(Some(Ref("https", "r1")), None) >>,
      << ImgTag(None, Some(Ref("https", "r1"))), ImgTag(Some(Ref("https", "r2")), None) >>,
      << ImgTag(Some(Ref("", "r1")), None), ImgTag(Some(Ref("relative", "r2")), None) >>,
      << ImgTag(None, None), ImgTag(Some(Ref("https", "r1")), None) >> }

\* Lines 2514-2521: the URL to fetch, or None when the tag is skipped.
ImgSrc(tag) ==
    LET raw == IF tag.src # None THEN tag.src ELSE tag.data_src
    IN  IF raw = None THEN None
        ELSE IF raw[1].scheme = "" THEN Some(Ref("https", raw[1].rest))
        ELSE IF raw[1].scheme \notin {"http", "https"} THEN None
        ELSE raw

\* _generate_image_filename: img_<hash of the whole URL>.<ext>.
ImageFilename(url) == "img_" \o url.scheme \o "_" \o url.rest \o ".jpg"

\* The reference written into src: images/<file>.
LocalRef(file) == Ref("relative", ImagesDir \o "/" \o file)

ImageFiles == {ImageFilename(u) : u \in RemoteUrls}
Paths == ImageFiles \cup {ImagesDir} \cup {AccountDir(w) : w \in Invocations}

\* File contents: "good" passes _validate_image_file; "bad" (an empty,
\* partial or non-image file) does not.
Contents == {"absent", "good", "bad"}

\* _validate_image_file: False for a missing file (line 2593).
Validate(content) == content = "good"

\* Mutant: an existing valid file is not reused.
ReuseExisting_Never(valid) == FALSE

\* Lines 2526-2534: an existing file is kept, and the fetch skipped, when it
\* validates; otherwise it is deleted and fetched again.
ReuseExisting(valid) == valid

\* What session.get and the header checks (lines 2547-2560) may give.
GetOutcomes == {"ok", "error", "not_image", "too_small"}

\* What writing the stream (lines 2563-2566) may give: the whole body, valid
\* or not, or an error raised by iter_content after the file was opened.
WriteOutcomes == {"good", "bad", "interrupted"}

NewWorker(fragment) ==
    [pc |-> "idle", orig |-> fragment, tags |-> fragment, i |-> 0,
     found |-> [j \in 1..Len(fragment) |-> "unchecked"],
     gets |-> [j \in 1..Len(fragment) |-> 0]]

\* The file of the image invocation w is working on.
CurFile(w) == ImageFilename(ImgSrc(workers[w].orig[workers[w].i])[1])

\* `continue`: on to the next img tag.
NextImage(wk) == [wk EXCEPT !.i = @ + 1, !.pc = "pick"]

\* Lines 2530 and 2571: img_tag['src'] = images/<file>.
Rewrite(wk, file) == [wk EXCEPT !.tags[wk.i].src = Some(LocalRef(file))]

Touch(S, w) == [p \in Paths |-> IF p \in S THEN touched[p] \cup {w} ELSE touched[p]]

\* Lines 233-235 and 2502-2509: the account directory is created, then, for
\* a fragment with img tags, the image directory.
StartFetch(w) ==
    /\ workers[w].pc = "idle"
    /\ workers' = [workers EXCEPT ![w].i = 1,
                      ![w].pc = IF workers[w].orig = <<>> THEN "done" ELSE "pick"]
    /\ touched' = Touch({AccountDir(w)} \cup
                        (IF workers[w].orig = <<>> THEN {} ELSE {ImagesDir}), w)
    /\ UNCHANGED <<nonFetchVars, disk>>

\* Lines 2512-2526: the next img tag, its URL and img_path.exists().
PickImage(w) ==
    LET wk == workers[w]
    IN  /\ wk.pc = "pick"
        /\ workers' = [workers EXCEPT ![w] =
              IF wk.i > Len(wk.orig) THEN [wk EXCEPT !.pc = "done"]
              ELSE IF ImgSrc(wk.orig[wk.i]) = None THEN NextImage(wk)
              ELSE IF disk[CurFile(w)] # "absent"
              THEN [wk EXCEPT !.pc = "validate_old"]
              ELSE [wk EXCEPT !.pc = "get", !.found[wk.i] = "absent"]]
        /\ UNCHANGED <<nonFetchVars, disk, touched>>

\* Lines 2528-2533: the existing file is validated.
ValidateOld(w) ==
    LET wk == workers[w]
    IN  /\ wk.pc = "validate_old"
        /\ workers' = [workers EXCEPT ![w] =
              LET valid == Validate(disk[CurFile(w)])
                  seen == [wk EXCEPT !.found[wk.i] = IF valid THEN "valid" ELSE "invalid"]
              IN  IF ReuseExisting(valid)
                  THEN NextImage(Rewrite(seen, CurFile(w)))
                  ELSE [seen EXCEPT !.pc = "unlink_old"]]
        /\ UNCHANGED <<nonFetchVars, disk, touched>>

\* Line 2534: img_path.unlink(); FileNotFoundError is caught at line 2579.
UnlinkOld(w) ==
    LET wk == workers[w]
    IN  /\ wk.pc = "unlink_old"
        /\ IF disk[CurFile(w)] # "absent"
           THEN /\ disk' = [disk EXCEPT ![CurFile(w)] = "absent"]
                /\ touched' = Touch({CurFile(w)}, w)
                /\ workers' = [workers EXCEPT ![w].pc = "get"]
           ELSE /\ workers' = [workers EXCEPT ![w] = NextImage(wk)]
                /\ UNCHANGED <<disk, touched>>
        /\ UNCHANGED nonFetchVars

\* Lines 2547-2560: the request, its status, content type and length.
GetImage(w) ==
    LET wk == workers[w]
    IN  /\ wk.pc = "get"
        /\ \E outcome \in GetOutcomes :
              workers' = [workers EXCEPT ![w] =
                  IF outcome = "ok"
                  THEN [wk EXCEPT !.pc = "open", !.gets[wk.i] = @ + 1]
                  ELSE NextImage([wk EXCEPT !.gets[wk.i] = @ + 1])]
        /\ UNCHANGED <<nonFetchVars, disk, touched>>

\* Line 2563: open(img_path, 'wb') creates or truncates the file.
OpenFile(w) ==
    /\ workers[w].pc = "open"
    /\ disk' = [disk EXCEPT ![CurFile(w)] = "bad"]
    /\ touched' = Touch({CurFile(w)}, w)
    /\ workers' = [workers EXCEPT ![w].pc = "write"]
    /\ UNCHANGED nonFetchVars

\* Lines 2564-2566: the body is written; after an unlink by somebody else
\* the bytes go to a file that is no longer in the directory.  An error in
\* iter_content is caught at line 2579, which goes on with the next tag.
WriteFile(w) ==
    LET wk == workers[w]
    IN  /\ wk.pc = "write"
        /\ \E outcome \in WriteOutcomes :
              /\ disk' = IF disk[CurFile(w)] = "absent" THEN disk
                         ELSE [disk EXCEPT ![CurFile(w)] =
                                  IF outcome = "good" THEN "good" ELSE "bad"]
              /\ workers' = [workers EXCEPT ![w] =
                    IF outcome = "interrupted" THEN NextImage(wk)
                    ELSE [wk EXCEPT !.pc = "validate_new"]]
        /\ touched' = Touch({CurFile(w)}, w)
        /\ UNCHANGED nonFetchVars

\* Lines 2569-2573: the downloaded file is validated.
ValidateNew(w) ==
    LET wk == workers[w]
    IN  /\ wk.pc = "validate_new"
        /\ workers' = [workers EXCEPT ![w] =
              IF Validate(disk[CurFile(w)]) THEN NextImage(Rewrite(wk, CurFile(w)))
              ELSE [wk EXCEPT !.pc = "unlink_new"]]
        /\ UNCHANGED <<nonFetchVars, disk, touched>>

\* Lines 2574-2575: the invalid download is deleted.
UnlinkNew(w) ==
    LET wk == workers[w]
    IN  /\ wk.pc = "unlink_new"
        /\ IF disk[CurFile(w)] # "absent"
           THEN /\ disk' = [disk EXCEPT ![CurFile(w)] = "absent"]
                /\ touched' = Touch({CurFile(w)}, w)
           ELSE UNCHANGED <<disk, touched>>
        /\ workers' = [workers EXCEPT ![w] = NextImage(wk)]
        /\ UNCHANGED nonFetchVars

\* The image directory before the invocations: empty, or holding the file
\* of the first URL, valid or damaged, from an earlier run.
InitialDisks ==
    {[f \in ImageFiles |-> IF f = ImageFilename(Ref("https", "r1")) THEN c ELSE "absent"] :
        c \in Contents}

InitFetch ==
    /\ InitCommon
    /\ InitServiceIdle
    /\ InitNameIdle
    /\ token /\ fakeid
    /\ entry = "fetcher"
    /\ pc = "done"
    /\ start_date = None
    /\ end_date = None
    /\ export_formats = None
    /\ special_left = 0
    /\ fail_left = 0
    /\ \E fa, fb \in Fragments : workers = [w \in Invocations |->
                                    NewWorker(IF w = "A" THEN fa ELSE fb)]
    /\ disk \in InitialDisks
    /\ touched = [p \in Paths |-> {}]

NextFetch ==
    \E w \in Invocations :
        \/ StartFetch(w)
        \/ PickImage(w)
        \/ ValidateOld(w)
        \/ UnlinkOld(w)
        \/ GetImage(w)
        \/ OpenFile(w)
        \/ WriteFile(w)
        \/ ValidateNew(w)
        \/ UnlinkNew(w)

FetchSpec == InitFetch /\ [][NextFetch]_vars

----------------------------------------------------------------------------
(* The account monitor (monitor/account_monitor.py) and the collection     *)
(* endpoints (collector/collectors.py): the threads that start collection  *)
(* runs                                                                    *)

Accounts == {"a1", "a2"}

\* What a caller may give as max_articles_per_check (the endpoint passes
\* on whatever the request body holds): a number or a string.
IntArg == [type |-> "int"]
StrArg == [type |-> "str"]
MaxArticlesArgs == {IntArg, StrArg}

ListArg(items) == [type |-> "list", items |-> items]

\* One entry of monitored_accounts: the config dict of an account.  A
\* removed account keeps its dict, which a loop's snapshot may still hold.
\* `due` tells whether last_check_time is None or check_interval_minutes
\* have passed since.
NewConfig(max_articles) ==
    [present |-> TRUE, enabled |-> TRUE, due |-> TRUE,
     max_articles_per_check |-> max_articles,
     export_formats |-> ListArg(DefaultFormats),
     total_collected |-> 0, error_count |-> 0, last_error |-> None]
NoConfig == [NewConfig(IntArg) EXCEPT !.present = FALSE]

\* Binding of positional arguments to the parameters of
\* collect_and_export_articles(self, account_name, export_formats=None,
\* start_date=None, end_date=None).
BindCollectArgs(args) ==
    [account_name |-> args[1],
     export_formats |-> IF Len(args) >= 2 THEN Some(args[2]) ELSE None,
     start_date |-> IF Len(args) >= 3 THEN Some(args[3]) ELSE None,
     end_date |-> IF Len(args) >= 4 THEN Some(args[4]) ELSE None]

\* Lines 142-148: collect_and_export_articles(account_name, max_articles,
\* export_formats), all positional.
MonitorCall(a, config) ==
    BindCollectArgs(<<a, config.max_articles_per_check, config.export_formats>>)

\* The call on the collector of line 141, which has no token: nothing is
\* listed (article_collector.py lines 125-134), and the empty result is
\* built by iterating export_formats (line 87), which raises on a number.
CollectWithoutToken(params) ==
    IF params.export_formats = None \/ params.export_formats[1].type \in {"list", "str"}
    THEN [raised |-> FALSE, success |-> FALSE, articles_count |-> 0,
          message |-> "no article collected"]
    ELSE [raised |-> TRUE, success |-> FALSE, articles_count |-> 0,
          message |-> "TypeError"]

\* Mutant: the except clause records the error without counting it.
CheckUpdate_ExceptNotCounted(config, res) ==
    IF res.raised
    THEN [config EXCEPT !.last_error = Some(res.message), !.due = FALSE]
    ELSE IF res.success
    THEN [config EXCEPT !.due = FALSE, !.total_collected = @ + res.articles_count,
                        !.last_error = None]
    ELSE [config EXCEPT !.due = FALSE, !.error_count = @ + 1,
                        !.last_error = Some(res.message)]

\* Lines 150-177: what _check_account_updates writes to the config, given
\* what the collector call did.
CheckUpdate(config, res) ==
    IF res.raised
    THEN [config EXCEPT !.error_count = @ + 1, !.last_error = Some(res.message),
                        !.due = FALSE]
    ELSE IF res.success
    THEN [config EXCEPT !.due = FALSE, !.total_collected = @ + res.articles_count,
                        !.last_error = None]
    ELSE [config EXCEPT !.due = FALSE, !.error_count = @ + 1,
                        !.last_error = Some(res.message)]

\* list(self.monitored_accounts.items()) (line 114), in key order.
Snapshot ==
    LET present == {a \in Accounts : monitored_accounts[a].present}
    IN  IF present = {} THEN <<>>
        ELSE IF present = {"a1"} THEN << "a1" >>
        ELSE IF present = {"a2"} THEN << "a2" >>
        ELSE << "a1", "a2" >>

NewLoop == [state |-> "top", snapshot |-> <<>>, k |-> 0]
IdleRequest == [kind |-> "idle", account |-> "none"]

\* start_monitoring (lines 91-99): nothing when running, else a new thread.
StartThread == IF running THEN loops ELSE Append(loops, NewLoop)

\* add_account_monitor (lines 24-62).
AddAccountMonitor(a, max_articles) ==
    /\ running \/ Len(loops) < MaxLoops
    /\ monitored_accounts' = [monitored_accounts EXCEPT ![a] = NewConfig(max_articles)]
    /\ loops' = StartThread
    /\ running' = TRUE
    /\ UNCHANGED <<nonServiceVars, requests>>

\* remove_account_monitor (lines 64-75).
RemoveAccountMonitor(a) ==
    /\ monitored_accounts[a].present
    /\ monitored_accounts' = [monitored_accounts EXCEPT ![a].present = FALSE]
    /\ UNCHANGED <<nonServiceVars, running, loops, requests>>

\* enable_account_monitor (lines 77-89).
EnableAccountMonitor(a, enabled) ==
    /\ monitored_accounts[a].present
    /\ monitored_accounts[a].enabled # enabled
    /\ monitored_accounts' = [monitored_accounts EXCEPT ![a].enabled = enabled]
    /\ UNCHANGED <<nonServiceVars, running, loops, requests>>

\* start_monitoring called directly (lines 91-99).
StartMonitoring ==
    /\ ~running
    /\ Len(loops) < MaxLoops
    /\ loops' = StartThread
    /\ running' = TRUE
    /\ UNCHANGED <<nonServiceVars, monitored_accounts, requests>>

\* stop_monitoring (lines 101-106): the flag is cleared; join gives up
\* after 5 seconds, so the loop thread may outlive the call.
StopMonitoring ==
    /\ running
    /\ running' = FALSE
    /\ UNCHANGED <<nonServiceVars, monitored_accounts, loops, requests>>

\* Line 110: `while self.running`, then line 114, the snapshot of a pass.
LoopTop(t) ==
    /\ loops[t].state = "top"
    /\ loops' = [loops EXCEPT ![t] =
          IF running THEN [state |-> "iter", snapshot |-> Snapshot, k |-> 1]
          ELSE [state |-> "exited", snapshot |-> <<>>, k |-> 0]]
    /\ UNCHANGED <<nonServiceVars, monitored_accounts, running, requests>>

\* Lines 114-129: the next account of the pass; it is checked when its
\* config is enabled and it is due.  After the last one, line 132.
LoopIter(t) ==
    LET lp == loops[t]
    IN  /\ lp.state = "iter"
        /\ loops' = [loops EXCEPT ![t] =
              IF lp.k > Len(lp.snapshot) THEN [lp EXCEPT !.state = "sleeping"]
              ELSE IF /\ monitored_accounts[lp.snapshot[lp.k]].enabled
                      /\ monitored_accounts[lp.snapshot[lp.k]].due
              THEN [lp EXCEPT !.state = "checking"]
              ELSE [lp EXCEPT !.k = @ + 1]]
        /\ UNCHANGED <<nonServiceVars, monitored_accounts, running, requests>>

\* _check_account_updates (lines 138-177) returns: the collector call was
\* made and the config it was given is updated.
CheckDone(a) ==
    [monitored_accounts EXCEPT ![a] =
        CheckUpdate(@, CollectWithoutToken(MonitorCall(a, @)))]

LoopCheckDone(t) ==
    LET lp == loops[t]
    IN  /\ lp.state = "checking"
        /\ monitored_accounts[lp.snapshot[lp.k]].error_count < MaxErrors
        /\ monitored_accounts' = CheckDone(lp.snapshot[lp.k])
        /\ loops' = [loops EXCEPT ![t] = [lp EXCEPT !.state = "iter", !.k = @ + 1]]
        /\ UNCHANGED <<nonServiceVars, running, requests>>

\* Line 132: the sleep of a pass ends.
LoopWake(t) ==
    /\ loops[t].state = "sleeping"
    /\ loops' = [loops EXCEPT ![t].state = "top"]
    /\ UNCHANGED <<nonServiceVars, monitored_accounts, running, requests>>

\* Time passes: check_interval_minutes have elapsed since last_check_time.
IntervalElapses(a) ==
    /\ monitored_accounts[a].present
    /\ ~monitored_accounts[a].due
    /\ monitored_accounts' = [monitored_accounts EXCEPT ![a].due = TRUE]
    /\ UNCHANGED <<nonServiceVars, running, loops, requests>>

\* force_check_account (lines 202-214) in a request thread: the check
\* starts when the account is monitored.
ForceCheck(r, a) ==
    /\ requests[r].kind = "idle"
    /\ monitored_accounts[a].present
    /\ requests' = [requests EXCEPT ![r] = [kind |-> "force", account |-> a]]
    /\ UNCHANGED <<nonServiceVars, monitored_accounts, running, loops>>

ForceCheckDone(r) ==
    /\ requests[r].kind = "force"
    /\ monitored_accounts[requests[r].account].error_count < MaxErrors
    /\ monitored_accounts' = CheckDone(requests[r].account)
    /\ requests' = [requests EXCEPT ![r] = IdleRequest]
    /\ UNCHANGED <<nonServiceVars, running, loops>>

\* collect_and_export_wechat_articles (collectors.py lines 152-232): the
\* run starts in a thread of its own (async) or in the request thread.
EndpointCollect(r, a) ==
    /\ requests[r].kind = "idle"
    /\ requests' = [requests EXCEPT ![r] = [kind |-> "endpoint", account |-> a]]
    /\ UNCHANGED <<nonServiceVars, monitored_accounts, running, loops>>

EndpointDone(r) ==
    /\ requests[r].kind = "endpoint"
    /\ requests' = [requests EXCEPT ![r] = IdleRequest]
    /\ UNCHANGED <<nonServiceVars, monitored_accounts, running, loops>>

InitService ==
    /\ InitCommon
    /\ InitFetchIdle
    /\ InitNameIdle
    /\ token /\ fakeid
    /\ entry = "service"
    /\ pc = "done"
    /\ start_date = None
    /\ end_date = None
    /\ export_formats = None
    /\ special_left = 0
    /\ fail_left = 0
    /\ monitored_accounts = [a \in Accounts |-> NoConfig]
    /\ running = FALSE
    /\ loops = <<>>
    /\ requests = [r \in 1..MaxRequests |-> IdleRequest]

NextService ==
    \/ \E a \in Accounts :
          \/ AddAccountMonitor(a, IntArg)
          \/ RemoveAccountMonitor(a)
          \/ \E enabled \in BOOLEAN : EnableAccountMonitor(a, enabled)
          \/ IntervalElapses(a)
          \/ \E r \in DOMAIN requests : ForceCheck(r, a) \/ EndpointCollect(r, a)
    \/ StartMonitoring
    \/ StopMonitoring
    \/ \E t \in DOMAIN loops :
          LoopTop(t) \/ LoopIter(t) \/ LoopCheckDone(t) \/ LoopWake(t)
    \/ \E r \in DOMAIN requests : ForceCheckDone(r) \/ EndpointDone(r)

ServiceSpec == InitService /\ [][NextService]_vars

\* The monitor with accounts added by callers who give a number or a
\* string as max_articles_per_check: the loop's checks and forced checks.
NextCheck ==
    \/ \E a \in Accounts :
          \/ \E max_articles \in MaxArticlesArgs : AddAccountMonitor(a, max_articles)
          \/ \E enabled \in BOOLEAN : EnableAccountMonitor(a, enabled)
          \/ IntervalElapses(a)
          \/ \E r \in DOMAIN requests : ForceCheck(r, a)
    \/ \E t \in DOMAIN loops :
          LoopTop(t) \/ LoopIter(t) \/ LoopCheckDone(t) \/ LoopWake(t)
    \/ \E r \in DOMAIN requests : ForceCheckDone(r)

CheckSpec == InitService /\ [][NextCheck]_vars

----------------------------------------------------------------------------
(* _generate_filename and _safe_filename, at the level of lengths *)


\* _safe_filename: what is left of a text of n usable characters; an
\* empty remainder becomes "unnamed".
SafeLength(n) == IF n = 0 THEN 7 ELSE n

\* A publish_time text: whether it is empty, contains '-', contains the
\* characters of a Chinese date and matches the pattern of one, and what
\* its first whitespace-separated token is once the '-' are removed.
PubTime(empty, dash, cn_chars, cn_match, token_len, token_digits) ==
    [empty |-> empty, dash |-> dash, cn_chars |-> cn_chars, cn_match |-> cn_match,
     token_len |-> token_len, token_digits |-> token_digits]

\* The texts _convert_timestamp produces for a stub (with and without
\* clock), and those a detail page may carry in its time element: a Chinese
\* date, a text with the characters of one that is none, a date without
\* leading zeros, a byline with a dash, a long unbroken string with a dash,
\* a text without dash, nothing.
PubTimes ==
    { PubTime(FALSE, TRUE, FALSE, FALSE, 8, TRUE),
      PubTime(FALSE, FALSE, TRUE, TRUE, 0, FALSE),
      PubTime(FALSE, FALSE, TRUE, FALSE, 0, FALSE),
      PubTime(FALSE, TRUE, FALSE, FALSE, 6, TRUE),
      PubTime(FALSE, TRUE, FALSE, FALSE, 4, FALSE),
      PubTime(FALSE, TRUE, FALSE, FALSE, 170, FALSE),
      PubTime(FALSE, TRUE, FALSE, FALSE, 180, FALSE),
      PubTime(FALSE, FALSE, FALSE, FALSE, 0, FALSE),
      PubTime(TRUE, FALSE, FALSE, FALSE, 0, FALSE) }

\* The usable lengths of account name and title.
NameLengths == {0, 1, 15, 20, 21, 40, 41, 64}

\* Lines 2721-2743: date_str, as its length and whether it is 8 digits.
DateStr(pub_time) ==
    IF ~pub_time.empty /\ pub_time.cn_chars
    THEN [len |-> 8, digits |-> TRUE]
    ELSE IF ~pub_time.empty /\ pub_time.dash
    THEN [len |-> pub_time.token_len,
          digits |-> pub_time.token_digits /\ pub_time.token_len = 8]
    ELSE [len |-> 8, digits |-> TRUE]

\* Lines 2713-2718 and 2746-2763: the three segments of the name and its
\* total length.
FilenameOf(account_len, title_len, pub_time) ==
    LET safe_account == Min(SafeLength(account_len), 20)
        safe_title == Min(SafeLength(title_len), 40)
        date_str == DateStr(pub_time)
        Name(a, t) == [account |-> a, title |-> t, date |-> date_str,
                       length |-> a + 1 + t + 1 + date_str.len]
        reserved_length == safe_account + date_str.len + 2
        available_title_length == max_length - reserved_length - 10
        short_account == Min(safe_account, 15)
    IN  IF Name(safe_account, safe_title).length <= max_length
        THEN Name(safe_account, safe_title)
        ELSE IF available_title_length > 10
        THEN Name(safe_account, Min(safe_title, available_title_length))
        ELSE Name(short_account,
                  Min(safe_title,
                      Max(10, max_length - short_account - date_str.len - 2 - 10)))

\* A call of _generate_filename(article).
GenerateName ==
    /\ filename = None
    /\ filename' = Some(FilenameOf(name_args[1].account_len, name_args[1].title_len,
                                   name_args[1].publish_time))
    /\ UNCHANGED <<nonNameVars, name_args>>

InitName ==
    /\ InitCommon
    /\ InitFetchIdle
    /\ InitServiceIdle
    /\ token /\ fakeid
    /\ entry = "filename"
    /\ pc = "done"
    /\ start_date = None
    /\ end_date = None
    /\ export_formats = None
    /\ special_left = 0
    /\ fail_left = 0
    /\ \E a, t \in NameLengths : \E p \in PubTimes :
          name_args = Some([account_len |-> a, title_len |-> t, publish_time |-> p])
    /\ filename = None

NextName == GenerateName

NameSpec == InitName /\ [][NextName]_vars

----------------------------------------------------------------------------
(* Properties of the listing walker, checked under WalkSpec *)

\* The feed group a stub was made from.
GroupOf(stub) == feed[stub.url[1]].app_msg_list[stub.url[2]]

\* The positions <<p, k>> of the groups served so far.
Served == {pk \in (1..Len(feed)) \X (1..page_size) : pk[2] <= Len(feed[pk[1]].app_msg_list)}

Precedes(a, b) == a[1] < b[1] \/ (a[1] = b[1] /\ a[2] < b[2])

\* The window the caller asked for, read off the arguments.
InWindow(t) ==
    /\ WellFormed(start_date) => t >= DayStart(start_date[1].day)
    /\ WellFormed(end_date) => t <= DayEnd(end_date[1].day)

TooOld(t) == WellFormed(start_date) /\ t < DayStart(start_date[1].day)
TooNew(t) == WellFormed(end_date) /\ t > DayEnd(end_date[1].day)

LastStatus == IF feed = <<>> THEN "none" ELSE ResponseStatus(feed[Len(feed)])

\* C1: every stub the walker holds or returns was made from a group whose
\* create_time lies in [start_date 00:00:00, end_date 23:59:59], each bound
\* applying when that date is given and well-formed; a nested sub-item is
\* judged by its group's create_time.
C1_StubsInWindow ==
    \A stub \in Range(all_articles) \cup Range(articles) :
        InWindow(GroupOf(stub).create_time)

\* C1 witness: a finished walk with both bounds that returned stubs,
\* skipped a group (with a nested sub-item) later than end_date and returned
\* a group dated exactly start_date 00:00:00.
C1_Witness ==
    /\ pc = "done"
    /\ WellFormed(start_date) /\ WellFormed(end_date)
    /\ articles # <<>>
    /\ \E stub \in Range(articles) :
          GroupOf(stub).create_time = DayStart(start_date[1].day)
    /\ \E pk \in Served :
          /\ TooNew(feed[pk[1]].app_msg_list[pk[2]].create_time)
          /\ feed[pk[1]].app_msg_list[pk[2]].multi_app_msg_item_list # <<>>

\* The groups older than start_date, by position.
OldGroups == {pk \in Served : TooOld(feed[pk[1]].app_msg_list[pk[2]].create_time)}

\* C2: once a group older than start_date has been scanned, no stub comes
\* from that group or any group after it, no further page is requested,
\* and the stubs of the earlier groups that are not later than end_date
\* are all kept.
C2_EarlyTermination ==
    \A old \in OldGroups :
        /\ \A stub \in Range(all_articles) \cup Range(articles) :
              Precedes(<<stub.url[1], stub.url[2]>>, old)
        /\ Len(feed) = old[1]
        /\ pc # "walker_loop"
        /\ \A pk \in Served :
              (/\ \A other \in OldGroups : Precedes(pk, other)
               /\ ~TooNew(feed[pk[1]].app_msg_list[pk[2]].create_time))
                  => Range(Flatten(feed[pk[1]].app_msg_list[pk[2]])) \subseteq Range(articles)

\* C2 witness: a group older than start_date was followed, in the same
\* page, by a group inside the window, and stubs scanned before it were
\* returned.
C2_Witness ==
    /\ pc = "done"
    /\ articles # <<>>
    /\ \E old \in OldGroups : \E pk \in Served :
          /\ Precedes(old, pk)
          /\ InWindow(feed[pk[1]].app_msg_list[pk[2]].create_time)

\* The urls of a stub list are in feed order.
InFeedOrder(seq) ==
    \A i, j \in 1..Len(seq) :
        i < j => \/ Precedes(<<seq[i].url[1], seq[i].url[2]>>, <<seq[j].url[1], seq[j].url[2]>>)
                 \/ (seq[i].url[1] = seq[j].url[1] /\ seq[i].url[2] = seq[j].url[2]
                      /\ seq[i].url[3] < seq[j].url[3])

\* C3: when a response carries a non-success status (rate limit or any
\* other error status), the walk is over and its return value is exactly
\* the stubs accumulated from the pages processed before: all of them, in
\* feed order, none from elsewhere.
C3_ErrorStatusReturnsAccumulated ==
    LastStatus \in {"rate_limit", "api_error"} =>
        /\ pc # "walker_loop"
        /\ articles = all_articles
        /\ InFeedOrder(articles)
        /\ \A stub \in Range(articles) : stub.url[1] < Len(feed)
        /\ \A pk \in Served :
              ~TooNew(feed[pk[1]].app_msg_list[pk[2]].create_time)
                  => Range(Flatten(feed[pk[1]].app_msg_list[pk[2]])) \subseteq Range(articles)

\* C3 witness: a full first page yielded stubs and the second request was
\* answered with an error status other than the rate limit.
C3_Witness ==
    /\ pc = "done"
    /\ Len(feed) = 2
    /\ LastStatus = "api_error"
    /\ Len(articles) >= page_size

\* Every page that was followed by another request was a full page, the
\* offset of the next request is page_size times the number of pages
\* served, and no request follows an empty or short page.
FullPagesOnly ==
    /\ \A i \in 1..(Len(feed) - 1) :
          /\ ResponseStatus(feed[i]) = "ok"
          /\ Len(feed[i].app_msg_list) = page_size
    /\ pc = "walker_loop" => begin = page_size * Len(feed)
    /\ (feed # <<>> /\ Len(feed[Len(feed)].app_msg_list) < page_size)
          => pc # "walker_loop"

\* C20: the walker requests the next page, at the offset advanced by
\* exactly page_size, only after a full page; an empty or short page ends
\* the walk, and on a finite feed the walk always terminates and returns.
C20_FullPagesOnlyAndTerminates ==
    /\ []FullPagesOnly
    /\ <>(pc = "done")

\* C20 witness: a full first page was followed by a request at offset
\* page_size, whose short page ended the walk; the stubs of both pages were
\* returned.
C20_Witness ==
    /\ pc = "done"
    /\ Len(feed) = 2
    /\ Len(feed[1].app_msg_list) = page_size
    /\ Len(feed[2].app_msg_list) \in 1..(page_size - 1)
    /\ begin = page_size
    /\ Len(articles) > page_size

\* The group at position pk of the feed.
GroupAt(pk) == feed[pk[1]].app_msg_list[pk[2]]

\* The groups later than end_date, by position.
NewGroups == {pk \in Served : TooNew(GroupAt(pk).create_time)}

\* The stubs the list holds that were made from the group at pk.
StubsFrom(seq, pk) == {stub \in Range(seq) : <<stub.url[1], stub.url[2]>> = pk}

\* C21: a group later than end_date yields no stub, neither its primary
\* article nor its nested sub-items, and does not end the scan: every
\* served group after it, in the same page or a following one, that lies
\* in the window and is not behind a group older than start_date has all
\* its stubs in the list, and in the return value of a walk that returned
\* normally.
C21_TooNewSkippedScanContinues ==
    \A new \in NewGroups :
        /\ StubsFrom(all_articles, new) = {}
        /\ StubsFrom(articles, new) = {}
        /\ \A pk \in Served :
              (/\ Precedes(new, pk)
               /\ InWindow(GroupAt(pk).create_time)
               /\ \A old \in OldGroups : Precedes(pk, old))
                  => /\ Range(Flatten(GroupAt(pk))) \subseteq Range(all_articles)
                     /\ (pc = "done" /\ LastStatus = "ok")
                           => Range(Flatten(GroupAt(pk))) \subseteq Range(articles)

\* C21 witness: the first group of a full first page is later than end_date
\* and has a nested sub-item; the walk returned the stubs of a later group
\* of that page and of a group of the second page.
C21_Witness ==
    /\ pc = "done"
    /\ Len(feed) = 2
    /\ <<1, 1>> \in NewGroups
    /\ GroupAt(<<1, 1>>).multi_app_msg_item_list # <<>>
    /\ StubsFrom(articles, <<1, 2>>) # {}
    /\ StubsFrom(articles, <<2, 1>>) # {}

Malformed(d) == d # None /\ ~WellFormed(d)

\* C23: a start_date that strptime rejects never ends the walk early and
\* excludes no group, a rejected end_date never causes a skip, and in both
\* cases the bound on the other side, when well-formed, is applied.
C23_MalformedDateIsAbsent ==
    /\ Malformed(start_date) =>
          /\ pc # "walker_entry" => start_timestamp = None
          /\ \A pk \in Served :
                ~TooNew(GroupAt(pk).create_time)
                    => Range(Flatten(GroupAt(pk))) \subseteq Range(all_articles)
          /\ (LastStatus = "ok" /\ Len(feed[Len(feed)].app_msg_list) = page_size)
                => pc = "walker_loop"
          /\ \A stub \in Range(all_articles) : ~TooNew(GroupOf(stub).create_time)
    /\ Malformed(end_date) =>
          /\ pc # "walker_entry" => end_timestamp = None
          /\ \A pk \in Served :
                (\A old \in OldGroups : Precedes(pk, old))
                    => Range(Flatten(GroupAt(pk))) \subseteq Range(all_articles)
          /\ \A stub \in Range(all_articles) : ~TooOld(GroupOf(stub).create_time)

\* C23 witness: with a rejected start_date and a well-formed end_date, a
\* group later than end_date was skipped, the walk went on to a second
\* page and returned stubs of both pages.
C23_Witness ==
    /\ pc = "done"
    /\ Malformed(start_date) /\ WellFormed(end_date)
    /\ Len(feed) = 2
    /\ NewGroups # {}
    /\ \E s1, s2 \in Range(articles) : s1.url[1] = 1 /\ s2.url[1] = 2

\* The groups that carry no timestamp, by position.
Undated == {pk \in Served : GroupAt(pk).create_time = MissingTime}

\* C24 as stated: a group whose timestamp cannot be read is listed when
\* neither start_date nor end_date is given and dropped when a well-formed
\* bound is given, and in neither case are other groups lost: the groups of
\* the window served after it are still listed.
C24_Original ==
    \A pk \in Undated :
        /\ (start_date = None /\ end_date = None)
              => Range(Flatten(GroupAt(pk))) \subseteq Range(all_articles)
        /\ (WellFormed(start_date) \/ WellFormed(end_date))
              => StubsFrom(all_articles, pk) = {}
        /\ \A other \in Served :
              (/\ Precedes(pk, other)
               /\ other \notin Undated
               /\ InWindow(GroupAt(other).create_time))
                  => Range(Flatten(GroupAt(other))) \subseteq Range(all_articles)

\* C25 as stated: when a page request fails at transport level after
\* earlier pages yielded stubs, the walk returns the stubs accumulated
\* from those pages.
C25_Original ==
    (pc = "done" /\ LastStatus = "exception") => articles = all_articles

----------------------------------------------------------------------------
(* Properties of the orchestrator, checked under Spec *)

Returned == pc = "done" /\ result # None

Extracted == {e \in Range(detail_log) : e.ok}
NotExtracted == {e \in Range(detail_log) : ~e.ok}

\* C4: when a later page answers with the rate-limit status after earlier
\* pages yielded stubs, and every stub was extracted successfully, the run returns
\* success = True with articles_count equal to the number of stubs listed
\* before the rate limit.
C4_RateLimitPartialSuccess ==
    (/\ pc = "done"
     /\ LastStatus = "rate_limit"
     /\ Len(feed) >= 2
     /\ Len(detail_log) = Len(articles)
     /\ NotExtracted = {})
        => /\ result # None
           /\ result[1].success = TRUE
           /\ result[1].articles_count = Cardinality(Served)
           /\ result[1].articles_count = Len(articles)

\* C4 witness: the spec scenario, a first page of 5 stubs and the rate
\* limit on page 2, all 5 extracted, returned as a success with count 5.
C4_Witness ==
    /\ Returned
    /\ Len(feed) = 2
    /\ LastStatus = "rate_limit"
    /\ NotExtracted = {}
    /\ result[1].success
    /\ result[1].articles_count = page_size

\* The messages that name the missing token configuration.
ConfigurationMessages == {"token and fakeid are not configured"}

\* C5 as stated: without a token the run makes no listing request and
\* returns success = False, articles_count = 0 and a message that indicates
\* the missing configuration.
C5_Original ==
    (pc = "done" /\ ~token) =>
        /\ feed = <<>>
        /\ result # None
        /\ result[1].success = FALSE
        /\ result[1].articles_count = 0
        /\ result[1].message \in ConfigurationMessages

\* C5 amended: without a token the run makes no listing request and returns
\* success = False, articles_count = 0 and the message every empty run
\* returns ("no article collected"); the result's message does not name the
\* configuration.
C5_Amended ==
    (pc = "done" /\ ~token) =>
        /\ feed = <<>>
        /\ detail_log = <<>>
        /\ result # None
        /\ result[1].success = FALSE
        /\ result[1].articles_count = 0
        /\ result[1].message = "no article collected"
        /\ result[1].message \notin ConfigurationMessages

\* C5 witness: a finished run of a collector without token.
C5_Witness == Returned /\ ~token /\ result[1].success = FALSE

\* C6 as stated: for every article that reached rendering, the saver of
\* every requested format was called, whatever happened to the savers of
\* the other formats; in particular a requested json file is written
\* unless the json saver itself failed.
C6_Original ==
    \A e \in Extracted : \A j \in 1..Len(export_formats[1]) :
        \E r \in render_log : r.url = e.url /\ r.pos = j

C8_RenderFailureKeepsClassification ==
    /\ stats.success_count = Cardinality(Extracted)
    /\ stats.error_count = Cardinality(NotExtracted)
    /\ \A e \in Extracted : \E a \in Range(collected_articles) : a.url = e.url
    /\ Returned => result[1].articles_count = Cardinality(Extracted)

\* C8 witness: a returned run in which a saver failed with an escaping
\* error and every article was nevertheless counted as a success.
C8_Witness ==
    /\ Returned
    /\ \E r \in render_log : r.fmt \in RaisingFormats /\ r.outcome # "ok"
    /\ stats.error_count = 0
    /\ stats.success_count = Len(articles)
    /\ result[1].articles_count = Len(articles)

\* C9: a failed extraction never aborts the run: the stubs are attempted in
\* listing order, each once, and when the loop of
\* _process_articles_with_formats has finished success_count + error_count
\* is the number of stubs.
C9_EveryStubCountedOnce ==
    /\ pc = "process" =>
          /\ Len(detail_log) = idx - 1
          /\ \A i \in 1..Len(detail_log) : detail_log[i].url = articles[i].url
          /\ stats.success_count + stats.error_count = Len(detail_log)
    /\ (pc \in {"collect_return", "done"} /\ idx > 0) =>
          /\ Len(detail_log) = Len(articles)
          /\ \A i \in 1..Len(articles) : detail_log[i].url = articles[i].url
          /\ stats.success_count + stats.error_count = Len(articles)

\* C9 witness: a failed extraction was followed by a successful one.
C9_Witness ==
    /\ Returned
    /\ \E i, j \in 1..Len(detail_log) : i < j /\ ~detail_log[i].ok /\ detail_log[j].ok

\* C10 as stated: a run in which at least one stub failed extraction
\* leaves a failed-links manifest in the account directory and surfaces its
\* path in the result as failed_file.
C10_Original ==
    (Returned /\ stats.error_count >= 1) =>
        /\ "failed_file" \in DOMAIN result[1]
        /\ \E f \in files : f.ext = "failed_articles.json"

\* The keys every result structure carries.
ResultKeys == {"success", "message", "articles_count", "export_stats"}

AllSucceeded ==
    /\ Returned
    /\ articles # <<>>
    /\ Len(detail_log) = Len(articles)
    /\ NotExtracted = {}
    /\ \A r \in render_log : r.outcome = "ok"

\* The files with extension ext that were not in the directory before the run.
WrittenThisRun(ext) == {f \in files \ PriorFiles : f.ext = ext}

\* C12 as stated: when all N listed stubs are extracted and all savers
\* succeed, articles_count = N and the directory holds N files of each
\* requested format written by this run, none overwritten by another
\* article of the run.
C12_Original ==
    AllSucceeded =>
        /\ result[1].articles_count = Len(articles)
        /\ \A j \in 1..Len(export_formats[1]) :
              Cardinality(WrittenThisRun(ExtOf(export_formats[1][j]))) = Len(articles)

\* The name of file f ends in .ext.
HasExtension(f, ext) == f.ext \in {ext, "pdf." \o ext, "docx." \o ext}

\* C13: on a successful run, the export_stats entry of each requested
\* format (under the format's extension) is the number of files with that
\* extension in the account directory at return, the files of earlier runs
\* included.
C13_ExportStatsCountsDirectory ==
    (Returned /\ result[1].success) =>
        \A j \in 1..Len(export_formats[1]) :
            LET ext == ExtOf(export_formats[1][j])
            IN  /\ ext \in DOMAIN result[1].export_stats
                /\ result[1].export_stats[ext] =
                      Cardinality({f \in files : HasExtension(f, ext)})

\* C13 witness: a successful run that wrote json files into a directory
\* already holding one; the json count is larger than what the run wrote.
C13_Witness ==
    /\ Returned
    /\ result[1].success
    /\ WrittenThisRun("json") # {}
    /\ "json" \in DOMAIN result[1].export_stats
    /\ result[1].export_stats["json"] > Cardinality(WrittenThisRun("json"))

\* C14 as stated: when the detail page carries no publish time, the merged
\* article keeps the publish_time of its listing stub.
C14_Original ==
    \A a \in Range(collected_articles) : \A k \in 1..Len(detail_log) :
        (detail_log[k].url = a.url /\ ~detail_log[k].page_has_time)
            => a.publish_time = articles[k].publish_time

----------------------------------------------------------------------------
(* Properties of listing and processing together, checked under ListingSpec *)

\* The groups the scan flattened: served, not later than end_date and not
\* at or behind a group older than start_date.
Scanned ==
    {pk \in Served :
        /\ ~TooNew(GroupAt(pk).create_time)
        /\ \A old \in OldGroups : Precedes(pk, old)}

\* The stub at position <<p, k, j>> is what the claim says of it: the
\* primary article (j = 0) or the j-th sub-item of a scanned group, that
\* article has title and link, and the stub carries the group's timestamp.
StubFaithful(stub) ==
    LET pk == <<stub.url[1], stub.url[2]>>
        j == stub.url[3]
    IN  /\ pk \in Scanned
        /\ stub.publish_time = ConvertTimestamp(GroupAt(pk).create_time)
        /\ IF j = 0
           THEN GroupAt(pk).title = Some(stub.title) /\ GroupAt(pk).link = Some(stub.url)
           ELSE /\ j <= Len(GroupAt(pk).multi_app_msg_item_list)
                /\ GroupAt(pk).multi_app_msg_item_list[j].title = Some(stub.title)
                /\ GroupAt(pk).multi_app_msg_item_list[j].link = Some(stub.url)

\* Every article of a scanned group that has title and link has its stub.
AllEmitted(seq) ==
    \A pk \in Scanned :
        /\ (GroupAt(pk).title # None /\ GroupAt(pk).link # None)
              => \E stub \in Range(seq) : stub.url = GroupAt(pk).link[1]
        /\ \A j \in 1..Len(GroupAt(pk).multi_app_msg_item_list) :
              LET sub == GroupAt(pk).multi_app_msg_item_list[j]
              IN  (sub.title # None /\ sub.link # None)
                      => \E stub \in Range(seq) : stub.url = sub.link[1]

\* C22: the walker's list holds, for each scanned group, the primary
\* article when it has title and link and then each sub-item that has title
\* and link, every stub with the group's timestamp, in page order and
\* in-page order; the orchestrator receives that list and attempts its stubs
\* one by one in that order.
C22_FlattenedInFeedOrder ==
    /\ InFeedOrder(all_articles)
    /\ \A stub \in Range(all_articles) : StubFaithful(stub)
    /\ AllEmitted(all_articles)
    /\ (pc \in {"collect_listed", "process", "collect_return", "done"}
           /\ LastStatus # "exception" /\ token /\ fakeid)
          => articles = all_articles
    /\ Len(detail_log) <= Len(articles)
    /\ \A i \in 1..Len(detail_log) : detail_log[i].url = articles[i].url
    /\ pc = "process" => idx = Len(detail_log) + 1

\* C22 witness: a group with a primary article and a nested sub-item was
\* followed by another group, and the orchestrator attempted the primary
\* article, the sub-item and the next group's article in that order.
C22_Witness ==
    /\ pc = "done"
    /\ Len(detail_log) >= 3
    /\ \E i \in 1..(Len(detail_log) - 2) :
          /\ detail_log[i].url[3] = 0
          /\ detail_log[i + 1].url = <<detail_log[i].url[1], detail_log[i].url[2], 1>>
          /\ detail_log[i + 2].url = <<detail_log[i].url[1], detail_log[i].url[2] + 1, 0>>

----------------------------------------------------------------------------
(* Properties of successive runs on one collector, checked under RunsSpec *)

\* C26 as stated: after any sequence of collection runs on one collector,
\* the success_rate get_collection_stats reports lies within [0, 100].
C26_Original ==
    pc = "done" =>
        LET rate == GetCollectionStats(stats).success_rate
        IN  0 <= rate.num /\ rate.num <= 100 * rate.den

----------------------------------------------------------------------------
(* Properties of the asset fetcher, checked under FetchSpec *)

\* Invocation w is through with img tag j.
Processed(w, j) == workers[w].pc = "done" \/ (workers[w].i > j /\ workers[w].pc # "idle")

\* The image file of img tag j of invocation w (for a tag that is not skipped).
FileOf(w, j) == ImageFilename(ImgSrc(workers[w].orig[j])[1])

Fetched(w, j) == ImgSrc(workers[w].orig[j]) # None

\* C15 as stated: two invocations for different accounts share no mutable
\* state: no file or directory is created, written or deleted by both.
C15_Original ==
    \A p \in DOMAIN touched : Cardinality(touched[p]) <= 1

\* C17: an img tag whose URL already has a valid local file at the computed
\* path causes no network fetch, and its src is rewritten to images/<file>,
\* the same reference every other run writes for that URL.
C17_FetcherIdempotent ==
    /\ \A w \in DOMAIN workers : \A j \in 1..Len(workers[w].orig) :
          workers[w].found[j] = "valid" =>
              /\ workers[w].gets[j] = 0
              /\ workers[w].tags[j].src = Some(LocalRef(FileOf(w, j)))
    /\ \A w1, w2 \in DOMAIN workers :
          \A j1 \in 1..Len(workers[w1].orig) : \A j2 \in 1..Len(workers[w2].orig) :
              (/\ Fetched(w1, j1) /\ Fetched(w2, j2)
               /\ ImgSrc(workers[w1].orig[j1]) = ImgSrc(workers[w2].orig[j2])
               /\ workers[w1].tags[j1] # workers[w1].orig[j1]
               /\ workers[w2].tags[j2] # workers[w2].orig[j2])
                  => workers[w1].tags[j1].src = workers[w2].tags[j2].src

\* C17 witness: invocation A downloaded an image and rewrote its src;
\* invocation B, run on the same URL afterwards, found the valid file, made
\* no request and wrote the same reference.
C17_Witness ==
    /\ workers # <<>>
    /\ workers["A"].pc = "done" /\ workers["B"].pc = "done"
    /\ \E j1 \in 1..Len(workers["A"].orig) : \E j2 \in 1..Len(workers["B"].orig) :
          /\ workers["A"].gets[j1] = 1
          /\ workers["A"].found[j1] = "absent"
          /\ workers["B"].found[j2] = "valid"
          /\ workers["B"].gets[j2] = 0
          /\ workers["B"].tags[j2].src = workers["A"].tags[j1].src
          /\ workers["B"].tags[j2].src = Some(LocalRef(FileOf("B", j2)))

\* C18 as stated: once an invocation is through with an img tag (no other
\* invocation having touched its file), either src is images/<file> and the
\* file exists and is valid, or the tag is unchanged and no invalid file is
\* left at the path.
C18_Original ==
    \A w \in DOMAIN workers : \A j \in 1..Len(workers[w].orig) :
        (Processed(w, j) /\ Fetched(w, j) /\ touched[FileOf(w, j)] \subseteq {w}) =>
            \/ /\ workers[w].tags[j].src = Some(LocalRef(FileOf(w, j)))
               /\ disk[FileOf(w, j)] = "good"
            \/ /\ workers[w].tags[j] = workers[w].orig[j]
               /\ disk[FileOf(w, j)] # "bad"

----------------------------------------------------------------------------
(* Properties of the monitor and the endpoints, checked under ServiceSpec *)

\* The collection runs in progress: who runs them and for which account.
RunsInProgress ==
    {[by |-> "loop", id |-> t, account |-> loops[t].snapshot[loops[t].k]] :
        t \in {u \in DOMAIN loops : loops[u].state = "checking"}}
    \cup {[by |-> requests[r].kind, id |-> r, account |-> requests[r].account] :
        r \in {q \in DOMAIN requests : requests[q].kind # "idle"}}

\* C16 as stated: no two collection runs for the same account are in
\* progress at the same time, whoever started them (monitor loop,
\* force_check_account, collection endpoint).
C16_Original ==
    \A x, y \in RunsInProgress : x # y => x.account # y.account

\* The monitor loop threads that have not left _monitor_loop.
ActiveLoops == {t \in DOMAIN loops : loops[t].state # "exited"}

\* C27 as stated: at every moment at most one monitor loop thread is
\* active, whatever the interleaving of add_account_monitor,
\* start_monitoring and stop_monitoring.
C27_Original == Cardinality(ActiveLoops) <= 1

\* C28 as stated: the loop starts a check for an account only if, at the
\* time of the decision, the account is monitored, enabled and due (never
\* checked, or check_interval_minutes have passed since last_check_time).
C28_Original ==
    [][\A t \in DOMAIN loops :
          (loops[t].state = "iter" /\ loops'[t].state = "checking")
              => LET config == monitored_accounts[loops[t].snapshot[loops[t].k]]
                 IN  config.present /\ config.enabled /\ config.due]_vars

----------------------------------------------------------------------------
(* Properties of _check_account_updates, checked under CheckSpec *)

\* The step completes a check of account a, made by a loop thread or by
\* force_check_account.
CheckCompletes(a) ==
    \/ \E t \in DOMAIN loops :
          /\ loops[t].state = "checking"
          /\ loops[t].snapshot[loops[t].k] = a
          /\ loops'[t].state = "iter"
    \/ \E r \in DOMAIN requests :
          /\ requests[r].kind = "force"
          /\ requests[r].account = a
          /\ requests'[r].kind = "idle"

SuccessEffect(before, after) ==
    /\ after.total_collected >= before.total_collected
    /\ after.last_error = None
    /\ after.error_count = before.error_count

FailureEffect(before, after) ==
    /\ after.error_count = before.error_count + 1
    /\ after.last_error # None
    /\ after.total_collected = before.total_collected

\* C29: every completed check sets last_check_time and has exactly one of
\* two effects on the config: total_collected grown by articles_count,
\* last_error cleared and error_count unchanged; or error_count grown by
\* exactly 1, last_error set and total_collected unchanged.
C29_CheckCountsOnce ==
    [][\A a \in Accounts :
          CheckCompletes(a) =>
              LET before == monitored_accounts[a]
                  after == monitored_accounts'[a]
              IN  /\ ~after.due
                  /\ SuccessEffect(before, after) # FailureEffect(before, after)]_vars

\* C29 witness: two checks of a1 ended in the except clause and a check of
\* a2 ended with a failed result; each was counted once.
C29_Witness ==
    /\ monitored_accounts["a1"].error_count = 2
    /\ monitored_accounts["a1"].last_error = Some("TypeError")
    /\ monitored_accounts["a2"].error_count = 1
    /\ monitored_accounts["a2"].last_error = Some("no article collected")
    /\ monitored_accounts["a1"].total_collected = 0
    /\ ~monitored_accounts["a1"].due /\ ~monitored_accounts["a2"].due

\* The accounts a check is in progress for.
BeingChecked ==
    {loops[t].snapshot[loops[t].k] : t \in {u \in DOMAIN loops : loops[u].state = "checking"}}
    \cup {requests[r].account : r \in {q \in DOMAIN requests : requests[q].kind = "force"}}

\* C30 as stated: in the call a check makes, the collector's export_formats
\* parameter receives the account's configured export_formats and the date
\* bounds stay unset.
C30_Original ==
    \A a \in BeingChecked :
        LET params == MonitorCall(a, monitored_accounts[a])
        IN  /\ params.export_formats = Some(monitored_accounts[a].export_formats)
            /\ params.start_date = None
            /\ params.end_date = None

----------------------------------------------------------------------------
(* Properties of _generate_filename, checked under NameSpec *)

\* C19 as stated: whatever the title, the account name and the
\* publish_time, the name is at most max_length characters long and ends
\* with an underscore and a date segment of 8 digits.
C19_Original ==
    filename # None =>
        /\ filename[1].length <= max_length
        /\ filename[1].date.len = 8
        /\ filename[1].date.digits

====
